---- MODULE Spec2Model ----
(***************************************************************************)
(* chunkito: line-aligned chunking of a byte buffer, one aggregation       *)
(* thread per chunk, a merge of the per-chunk maps and a sorted report     *)
(* (src/src/main.rs), and the rayon producers that split the chunk list    *)
(* (src/src/lib.rs).                                                       *)
(*                                                                         *)
(* Bytes are their ASCII codes.  Offsets are the source's: 0-based, a      *)
(* chunk is the half-open range [start, end).  Temperatures are carried    *)
(* as integers in tenths (one fractional digit), so sums are exact.        *)
(***************************************************************************)
EXTENDS Integers, Sequences, FiniteSets, TLC

\* ------------------------------------------------------------------ bytes
LF == 10
SEMI == 59
MINUS == 45
PLUS == 43
DOT == 46
ZERO == 48
NINE == 57

\* ----------------------------------------------------------------- bounds
\* lines per input buffer
MaxLines == 3
\* target chunk counts 1..MaxTarget are tried next to main's own
MaxTarget == 2
\* the chunk count main asks for
MainChunks == 12
\* live producers a split may lead to
MaxProducers == 4

\* ----------------------------------------------------------------- inputs
\* the well-formed records the buffers are made of, each with the key and
\* the value (in tenths) it stands for:
\* "A;1.0"  "A;-2.5"  "AB;3.0"  "B;1.0"
WellFormedRecords ==
    { [line |-> <<65, SEMI, 49, DOT, 48>>, key |-> <<65>>, val |-> 10],
      [line |-> <<65, SEMI, MINUS, 50, DOT, 53>>, key |-> <<65>>, val |-> 0 - 25],
      [line |-> <<65, 66, SEMI, 51, DOT, 48>>, key |-> <<65, 66>>, val |-> 30],
      [line |-> <<66, SEMI, 49, DOT, 48>>, key |-> <<66>>, val |-> 10] }

WellFormedLines == { r.line : r \in WellFormedRecords }

\* "A;x": a value that is no number; "2.0": a line with no key segment
MalformedLines == { <<65, SEMI, 120>>, <<50, DOT, 48>> }

Lines == WellFormedLines \cup MalformedLines

RECURSIVE Concat(_)
\* every line followed by its line feed
Concat(ls) ==
    IF ls = <<>> THEN <<>>
    ELSE Head(ls) \o <<LF>> \o Concat(Tail(ls))

LineSeqs(L) == UNION { [1..n -> L] : n \in 0..MaxLines }

\* the buffers made of up to MaxLines lines of L, the last one with or
\* without its terminator
BuffersOf(L) ==
    { Concat(ls) : ls \in LineSeqs(L) }
    \cup { SubSeq(Concat(ls), 1, Len(Concat(ls)) - 1) : ls \in LineSeqs(L) \ {<<>>} }

\* the buffers the pipeline of main.rs is run on
Buffers == BuffersOf(Lines)

\* the buffers whose chunk lists the producers of lib.rs are split over:
\* "A;1.0" and "AB;3.0", lines of two lengths
SplitBuffers == BuffersOf({ <<65, SEMI, 49, DOT, 48>>, <<65, 66, SEMI, 51, DOT, 48>> })

TargetCounts == (1..MaxTarget) \cup {MainChunks}

\* ---------------------------------------------------------------- chunker
RECURSIVE find(_, _, _)
\* data[from..].find('\n'): the position of the first LF at or after 0-based
\* offset from, relative to from; -1 for None.  rel is the scan position.
find(data, from, rel) ==
    IF from + rel >= Len(data) THEN -1
    ELSE IF data[from + rel + 1] = LF THEN rel
    ELSE find(data, from, rel + 1)

RECURSIVE ChunkLoop_nobreak(_, _, _, _, _, _)
\* ChunkLoop without `if offset == end { break; }`
ChunkLoop_nobreak(data, eof, chunk_size, left, offset, chunks) ==
    IF left = 0 THEN chunks
    ELSE
      LET end0 == offset + chunk_size
          end == IF end0 >= eof THEN eof ELSE end0
          lf == find(data, end, 0)
      IN  IF lf >= 0
          THEN ChunkLoop_nobreak(data, eof, chunk_size, left - 1, end + lf + 1,
                                 Append(chunks, [start |-> offset, end |-> end + lf + 1]))
          ELSE Append(chunks, [start |-> offset, end |-> eof])

RECURSIVE ChunkLoop_fromoffset(_, _, _, _, _, _)
\* the loop looking for the line feed from the chunk's start, not from the
\* chunk's target end
ChunkLoop_fromoffset(data, eof, chunk_size, left, offset, chunks) ==
    IF left = 0 THEN chunks
    ELSE
      LET end0 == offset + chunk_size
          end == IF end0 >= eof THEN eof ELSE end0
      IN  IF offset = end THEN chunks
          ELSE
            LET lf == find(data, offset, 0)
            IN  IF lf >= 0
                THEN ChunkLoop_fromoffset(data, eof, chunk_size, left - 1, offset + lf + 1,
                               Append(chunks, [start |-> offset, end |-> offset + lf + 1]))
                ELSE Append(chunks, [start |-> offset, end |-> eof])

RECURSIVE ChunkLoop(_, _, _, _, _, _)
\* the body of `for _ in 0..nb_chunks`, with left iterations to go
ChunkLoop(data, eof, chunk_size, left, offset, chunks) ==
    IF left = 0 THEN chunks
    ELSE
      LET end0 == offset + chunk_size
          end == IF end0 >= eof THEN eof ELSE end0
      IN  IF offset = end THEN chunks
          ELSE
            LET lf == find(data, end, 0)
            IN  IF lf >= 0
                THEN ChunkLoop(data, eof, chunk_size, left - 1, end + lf + 1,
                               Append(chunks, [start |-> offset, end |-> end + lf + 1]))
                ELSE Append(chunks, [start |-> offset, end |-> eof])

\* chunk_it on a file that opened and mapped: the chunk list
chunk_it(data, nb) ==
    ChunkLoop(data, Len(data), Len(data) \div nb, nb, 0, <<>>)

\* chunk_file of lib.rs: the same loop, nb_chunks being num_cpus::get()
chunk_file(data, num_cpus) ==
    ChunkLoop(data, Len(data), Len(data) \div num_cpus, num_cpus, 0, <<>>)

\* Sensor::new starting the count at 0, as Sensor::default() does
Sensor_new_zero(temp) == [min |-> temp, max |-> temp, sum |-> temp, cnt |-> 0]

\* ------------------------------------------------------------- aggregator
\* Sensor::new
Sensor_new(temp) == [min |-> temp, max |-> temp, sum |-> temp, cnt |-> 1]

\* Sensor::add_temp leaving min as the first value seen
add_temp_keepmin(s, temp) ==
    [min |-> s.min,
     max |-> IF temp > s.max THEN temp ELSE s.max,
     sum |-> s.sum + temp,
     cnt |-> s.cnt + 1]

\* Sensor::add_temp
add_temp(s, temp) ==
    [min |-> IF temp < s.min THEN temp ELSE s.min,
     max |-> IF temp > s.max THEN temp ELSE s.max,
     sum |-> s.sum + temp,
     cnt |-> s.cnt + 1]

\* Sensor::merge taking the other sensor's min and max unconditionally
Sensor_merge_last(self, sensor) ==
    [min |-> sensor.min,
     max |-> sensor.max,
     sum |-> self.sum + sensor.sum,
     cnt |-> self.cnt + sensor.cnt]

\* Sensor::merge
Sensor_merge(self, sensor) ==
    [min |-> IF self.min > sensor.min THEN sensor.min ELSE self.min,
     max |-> IF self.max < sensor.max THEN sensor.max ELSE self.max,
     sum |-> self.sum + sensor.sum,
     cnt |-> self.cnt + sensor.cnt]

IsDigit(b) == ZERO <= b /\ b <= NINE

RECURSIVE DigitsValue(_, _)
\* the decimal digits of s read left to right onto acc
DigitsValue(s, acc) ==
    IF s = <<>> THEN acc
    ELSE DigitsValue(Tail(s), acc * 10 + (Head(s) - ZERO))

\* text.parse::<f32>() over the bytes the inputs are made of: an optional
\* sign, digits with at most one '.', at least one digit.  (The letters of
\* an exponent, "inf" and "nan" are no bytes of Lines.)  The value is in
\* tenths; a second fractional digit, which no input has, would be cut.
ParseF32(text) ==
    LET signed == text # <<>> /\ Head(text) \in {PLUS, MINUS}
        body == IF signed THEN Tail(text) ELSE text
        dots == { i \in 1..Len(body) : body[i] = DOT }
        dot == IF dots = {} THEN 0 ELSE CHOOSE i \in dots : \A j \in dots : i <= j
        int == IF dot = 0 THEN body ELSE SubSeq(body, 1, dot - 1)
        frac == IF dot = 0 THEN <<>> ELSE SubSeq(body, dot + 1, Len(body))
        ok == /\ \A i \in 1..Len(int) : IsDigit(int[i])
              /\ \A i \in 1..Len(frac) : IsDigit(frac[i])
              /\ Len(int) + Len(frac) >= 1
        mag == DigitsValue(int, 0) * 10
               + (IF frac = <<>> THEN 0 ELSE frac[1] - ZERO)
    IN  IF ok
        THEN [ok |-> TRUE,
              val |-> IF signed /\ Head(text) = MINUS THEN 0 - mag ELSE mag]
        ELSE [ok |-> FALSE, val |-> 0]

\* FxHashMap::with_capacity_and_hasher / default: the empty map
EmptyMap == <<>>

\* sensors.entry(name).and_modify(|s| s.add_temp(temp)).or_insert_with(|| Sensor::new(temp))
Record(sensors, name, temp) ==
    [k \in DOMAIN sensors \cup {name} |->
        IF k # name THEN sensors[k]
        ELSE IF name \in DOMAIN sensors THEN add_temp(sensors[name], temp)
        ELSE Sensor_new(temp)]

RECURSIVE Scan(_, _, _, _, _)
\* the loop of process_chunk at cursor curr: data[curr] is the source's
\* 0-based byte, name the scratch String
Scan(data, prev, curr, name, sensors) ==
    IF curr = Len(data) THEN [panicked |-> FALSE, sensors |-> sensors]
    ELSE IF data[curr + 1] = SEMI
    THEN Scan(data, curr + 1, curr + 1, SubSeq(data, prev + 1, curr), sensors)
    ELSE IF data[curr + 1] = LF
    THEN LET temp == ParseF32(SubSeq(data, prev + 1, curr))
         IN  IF ~temp.ok THEN [panicked |-> TRUE, sensors |-> EmptyMap]
             ELSE Scan(data, curr + 1, curr + 1, name,
                       Record(sensors, name, temp.val))
    ELSE Scan(data, prev, curr + 1, name, sensors)

\* process_chunk: the map, or the panic of unwrap() on a value that does
\* not parse
process_chunk(data) == Scan(data, 0, 0, <<>>, EmptyMap)

\* &mmap[chunk.start..chunk.end]
Slice(data, chunk) == SubSeq(data, chunk.start + 1, chunk.end)

\* ------------------------------------------------------------------ merger
\* one iteration of `for sensors in chunk_results`: every entry of sensors
\* goes through entry(name).and_modify(merge).or_insert(s).  The keys of one
\* map are distinct, so its entries touch distinct entries of all_sensors.
MergeInto(all_sensors, sensors) ==
    [k \in DOMAIN all_sensors \cup DOMAIN sensors |->
        IF k \notin DOMAIN sensors THEN all_sensors[k]
        ELSE IF k \in DOMAIN all_sensors
        THEN Sensor_merge(all_sensors[k], sensors[k])
        ELSE sensors[k]]

RECURSIVE MergeFold(_, _)
MergeFold(all_sensors, chunk_results) ==
    IF chunk_results = <<>> THEN all_sensors
    ELSE MergeFold(MergeInto(all_sensors, Head(chunk_results)), Tail(chunk_results))

\* a comparison by length first, then by the first differing byte
StrLess_len(a, b) ==
    \/ Len(a) < Len(b)
    \/ /\ Len(a) = Len(b)
       /\ \E k \in 1..Len(a) : a[k] < b[k] /\ \A i \in 1..(k - 1) : a[i] = b[i]

RECURSIVE StrLess(_, _)
\* a.cmp(b) == Less for Strings: byte-wise lexicographic
StrLess(a, b) ==
    IF b = <<>> THEN FALSE
    ELSE IF a = <<>> THEN TRUE
    ELSE IF Head(a) # Head(b) THEN Head(a) < Head(b)
    ELSE StrLess(Tail(a), Tail(b))

RECURSIVE InsertSorted(_, _)
InsertSorted(sorted, e) ==
    IF sorted = <<>> THEN <<e>>
    ELSE IF StrLess(e.name, Head(sorted).name) THEN <<e>> \o sorted
    ELSE <<Head(sorted)>> \o InsertSorted(Tail(sorted), e)

RECURSIVE sort_by(_)
\* sensors.sort_by(|(a, _), (b, _)| a.cmp(b)): a stable sort
sort_by(v) ==
    IF v = <<>> THEN <<>>
    ELSE InsertSorted(sort_by(SubSeq(v, 1, Len(v) - 1)), v[Len(v)])

\* the orders all_sensors.into_iter() may yield the keys of a map in
IterOrders(m) ==
    { o \in [1..Cardinality(DOMAIN m) -> DOMAIN m] :
        \A i, j \in DOMAIN o : i # j => o[i] # o[j] }

\* merge_results, with the hash map yielding its entries in order
merge_results_in(chunk_results, order) ==
    LET all_sensors == MergeFold(EmptyMap, chunk_results)
    IN  sort_by([i \in DOMAIN order |->
                    [name |-> order[i], sensor |-> all_sensors[order[i]]]])

\* merge_results: every result the iteration order allows
merge_results(chunk_results) ==
    { merge_results_in(chunk_results, o) :
        o \in IterOrders(MergeFold(EmptyMap, chunk_results)) }

\* ---------------------------------------------------------------- reporter
RECURSIVE Render_trailing(_, _, _)
\* the loop of write_results writing the separator after every entry
Render_trailing(sensors, index, last_index) ==
    IF index = Len(sensors) THEN <<>>
    ELSE LET e == sensors[index + 1]
         IN  <<[t |-> "entry", name |-> e.name, min |-> e.sensor.min,
                sum |-> e.sensor.sum, cnt |-> e.sensor.cnt,
                max |-> e.sensor.max]>>
             \o <<[t |-> ", "]>>
             \o Render_trailing(sensors, index + 1, last_index)

RECURSIVE Render(_, _, _)
\* the loop of write_results from entry index (0-based)
Render(sensors, index, last_index) ==
    IF index = Len(sensors) THEN <<>>
    ELSE LET e == sensors[index + 1]
         IN  <<[t |-> "entry", name |-> e.name, min |-> e.sensor.min,
                sum |-> e.sensor.sum, cnt |-> e.sensor.cnt,
                max |-> e.sensor.max]>>
             \o (IF index < last_index THEN <<[t |-> ", "]>> ELSE <<>>)
             \o Render(sensors, index + 1, last_index)

\* --------------------------------------------------------------- producers
\* A slice of the chunk Vec is its first index (0-based) and its length.

\* ChunkProducer::into_iter / ChunkProducerMut::into_iter: the chunks the
\* slice iterator yields, in order
into_iter(storage, prod) == [i \in 1..prod.len |-> storage[prod.base + i]]

\* split_at with the halves returned in the wrong order
split_at_swapped(prod, index) ==
    << [base |-> prod.base + index, len |-> prod.len - index],
       [base |-> prod.base, len |-> index] >>

\* split_at that keeps every chunk in the left half
split_at_keep(prod, index) ==
    << [base |-> prod.base, len |-> prod.len],
       [base |-> prod.base + prod.len, len |-> 0] >>

\* ChunkProducer::split_at (index <= len; the slice's split_at panics beyond)
split_at(prod, index) ==
    << [base |-> prod.base, len |-> index],
       [base |-> prod.base + index, len |-> prod.len - index] >>

\* split_at_mut whose right half starts one chunk early
split_at_mut_overlap(prod, index) ==
    << [base |-> prod.base, len |-> index],
       [base |-> IF index = 0 THEN prod.base ELSE prod.base + index - 1,
        len |-> IF index = 0 THEN prod.len ELSE prod.len - index + 1] >>

\* ChunkProducerMut::split_at
split_at_mut(prod, index) ==
    << [base |-> prod.base, len |-> index],
       [base |-> prod.base + index, len |-> prod.len - index] >>

\* ------------------------------------------------------------------ state
VARIABLES
    buffer,     \* the bytes of the measurements file
    nb_chunks,  \* the chunk count asked of the chunker
    pc,         \* where the main thread is: "chunk_it", "open", "spawn",
                \* "join", "merge", "write", "done"; "chunk_err" and
                \* "write_err" (main returned the error), "panic"
    chunks,     \* Vec<Chunk> returned by chunk_it
    wstate,     \* per chunk, its thread: "idle" (not spawned), "running",
                \* "done" (returned its map), "panicked"
    wresult,    \* per chunk, the map its thread returned
    sensors,    \* the maps process_chunks has collected from join()
    merged,     \* Vec<(Symbol, Sensor)> returned by merge_results
    file,       \* results.txt: "absent", or the tokens written to it
    lpc,        \* lib.rs: "open", "opened" (a Chunkit), "bridged" (handed to
                \* rayon as a producer), "err", "panic"
    lchunks,    \* lib.rs: Chunkit.chunks.chunks
    kind,       \* lib.rs: "ref" for par_iter, "mut" for par_iter_mut
    producers   \* lib.rs: the live producers, in index order

mainvars == <<pc, chunks, wstate, wresult, sensors, merged, file>>
libvars == <<lpc, lchunks, kind, producers>>
vars == <<buffer, nb_chunks, mainvars, libvars>>

Init ==
    /\ buffer \in Buffers
    /\ nb_chunks \in TargetCounts
    /\ pc = "chunk_it"
    /\ chunks = <<>>
    /\ wstate = <<>>
    /\ wresult = <<>>
    /\ sensors = <<>>
    /\ merged = <<>>
    /\ file = "absent"
    /\ lpc = "open"
    /\ lchunks = <<>>
    /\ kind = "none"
    /\ producers = <<>>

\* the process is gone: main returned an error or panicked
Exited == pc \in {"chunk_err", "write_err", "panic"}

\* main: chunk_it(...).context(...)? -- the chunk list
ChunkIt ==
    /\ pc = "chunk_it"
    /\ chunks' = chunk_it(buffer, nb_chunks)
    /\ wstate' = [i \in 1..Len(chunks') |-> "idle"]
    /\ wresult' = [i \in 1..Len(chunks') |-> EmptyMap]
    /\ pc' = "open"
    /\ UNCHANGED <<buffer, nb_chunks, sensors, merged, file, libvars>>

\* chunk_it: File::open or the mmap fails, and main returns the error
ChunkItFails ==
    /\ pc = "chunk_it"
    /\ pc' = "chunk_err"
    /\ UNCHANGED <<buffer, nb_chunks, chunks, wstate, wresult, sensors, merged, file, libvars>>

\* process_chunks: File::open(...).expect("potato")
Open ==
    /\ pc = "open"
    /\ \/ pc' = (IF chunks = <<>> THEN "merge" ELSE "spawn")
       \/ pc' = "panic"
    /\ UNCHANGED <<buffer, nb_chunks, chunks, wstate, wresult, sensors, merged, file, libvars>>

\* process_chunks: the closure of the first map, once per chunk in order:
\* try_clone().expect(...), then thread::spawn
Spawn(i) ==
    /\ pc = "spawn"
    /\ wstate[i] = "idle"
    /\ \A j \in 1..(i - 1) : wstate[j] # "idle"
    /\ \/ /\ wstate' = [wstate EXCEPT ![i] = "running"]
          /\ pc' = (IF i = Len(chunks) THEN "join" ELSE "spawn")
       \/ /\ pc' = "panic"
          /\ UNCHANGED wstate
    /\ UNCHANGED <<buffer, nb_chunks, chunks, wresult, sensors, merged, file, libvars>>

\* the thread of chunk i returning its map through the first thread's slot
Worker_shared(i) ==
    /\ ~Exited
    /\ wstate[i] = "running"
    /\ \/ LET r == process_chunk(Slice(buffer, chunks[i]))
          IN  /\ wstate' = [wstate EXCEPT ![i] = IF r.panicked THEN "panicked" ELSE "done"]
              /\ wresult' = [wresult EXCEPT ![1] = r.sensors]
       \/ /\ wstate' = [wstate EXCEPT ![i] = "panicked"]
          /\ UNCHANGED wresult
    /\ UNCHANGED <<buffer, nb_chunks, pc, chunks, sensors, merged, file, libvars>>

\* the thread of chunk i: map the file, advise, process_chunk on its slice.
\* The thread ends with its map, or panicked (expect() on the mapping,
\* unwrap() on a value that does not parse).
Worker(i) ==
    /\ ~Exited
    /\ wstate[i] = "running"
    /\ \/ LET r == process_chunk(Slice(buffer, chunks[i]))
          IN  /\ wstate' = [wstate EXCEPT ![i] = IF r.panicked THEN "panicked" ELSE "done"]
              /\ wresult' = [wresult EXCEPT ![i] = r.sensors]
       \/ /\ wstate' = [wstate EXCEPT ![i] = "panicked"]
          /\ UNCHANGED wresult
    /\ UNCHANGED <<buffer, nb_chunks, pc, chunks, sensors, merged, file, libvars>>

\* Join taking the handles from the last spawned to the first
Join_reversed ==
    /\ pc = "join"
    /\ LET j == Len(chunks) - Len(sensors)
       IN  \/ /\ wstate[j] = "done"
              /\ sensors' = Append(sensors, wresult[j])
              /\ pc' = (IF j = 1 THEN "merge" ELSE "join")
           \/ /\ wstate[j] = "panicked"
              /\ pc' = "panic"
              /\ UNCHANGED sensors
    /\ UNCHANGED <<buffer, nb_chunks, chunks, wstate, wresult, merged, file, libvars>>

\* Join taking a panicked thread's result as an empty map
Join_skip ==
    /\ pc = "join"
    /\ LET j == Len(sensors) + 1
       IN  /\ wstate[j] \in {"done", "panicked"}
           /\ sensors' = Append(sensors, wresult[j])
           /\ pc' = (IF j = Len(chunks) THEN "merge" ELSE "join")
    /\ UNCHANGED <<buffer, nb_chunks, chunks, wstate, wresult, merged, file, libvars>>

\* Join reading a thread's slot without waiting for the thread to end
Join_nowait ==
    /\ pc = "join"
    /\ LET j == Len(sensors) + 1
       IN  \/ /\ wstate[j] \in {"running", "done"}
              /\ sensors' = Append(sensors, wresult[j])
              /\ pc' = (IF j = Len(chunks) THEN "merge" ELSE "join")
           \/ /\ wstate[j] = "panicked"
              /\ pc' = "panic"
              /\ UNCHANGED sensors
    /\ UNCHANGED <<buffer, nb_chunks, chunks, wstate, wresult, merged, file, libvars>>

\* process_chunks: handle.join().expect("unable to join thread"), the
\* handles in chunk order; join blocks until the thread has ended
Join ==
    /\ pc = "join"
    /\ LET j == Len(sensors) + 1
       IN  \/ /\ wstate[j] = "done"
              /\ sensors' = Append(sensors, wresult[j])
              /\ pc' = (IF j = Len(chunks) THEN "merge" ELSE "join")
           \/ /\ wstate[j] = "panicked"
              /\ pc' = "panic"
              /\ UNCHANGED sensors
    /\ UNCHANGED <<buffer, nb_chunks, chunks, wstate, wresult, merged, file, libvars>>

\* main: merge_results(sensors)
MergeResults ==
    /\ pc = "merge"
    /\ merged' \in merge_results(sensors)
    /\ pc' = "write"
    /\ UNCHANGED <<buffer, nb_chunks, chunks, wstate, wresult, sensors, file, libvars>>

\* main: write_results(sensors, "results.txt")?.  File::create may fail.
\* With no entry, sensors.len() - 1 panics where overflow is checked (the
\* BufWriter is dropped holding "{" and flushes it) and wraps where it is
\* not (the loop runs no iteration).
WriteResults ==
    /\ pc = "write"
    /\ \/ /\ pc' = "write_err"
          /\ UNCHANGED file
       \/ /\ merged = <<>>
          /\ \/ /\ file' = <<[t |-> "{"]>>
                /\ pc' = "panic"
             \/ /\ file' = <<[t |-> "{"], [t |-> "}"]>>
                /\ pc' = "done"
       \/ /\ merged # <<>>
          /\ file' = <<[t |-> "{"]>> \o Render(merged, 0, Len(merged) - 1) \o <<[t |-> "}"]>>
          /\ pc' = "done"
    /\ UNCHANGED <<buffer, nb_chunks, chunks, wstate, wresult, sensors, merged, libvars>>

Next ==
    \/ ChunkIt
    \/ ChunkItFails
    \/ Open
    \/ \E i \in DOMAIN wstate : Spawn(i)
    \/ \E i \in DOMAIN wstate : Worker(i)
    \/ Join
    \/ MergeResults
    \/ WriteResults

\* the binary of main.rs
Spec == Init /\ [][Next]_vars

\* ------------------------------------------------------- lib.rs: Chunkit
InitSplit ==
    /\ buffer \in SplitBuffers
    /\ nb_chunks \in TargetCounts
    /\ pc = "chunk_it"
    /\ chunks = <<>>
    /\ wstate = <<>>
    /\ wresult = <<>>
    /\ sensors = <<>>
    /\ merged = <<>>
    /\ file = "absent"
    /\ lpc = "open"
    /\ lchunks = <<>>
    /\ kind = "none"
    /\ producers = <<>>

\* Chunkit::open: chunk_file over the mapped file (nb_chunks stands for
\* num_cpus::get()), or the error of File::open or of the mapping
ChunkitOpen ==
    /\ lpc = "open"
    /\ \/ /\ lchunks' = chunk_file(buffer, nb_chunks)
          /\ lpc' = "opened"
       \/ /\ lpc' = "err"
          /\ UNCHANGED lchunks
    /\ UNCHANGED <<buffer, nb_chunks, mainvars, kind, producers>>

\* Chunkit::par_iter driven by rayon: with_producer hands the callback a
\* ChunkProducer over the whole Vec
ParIter ==
    /\ lpc = "opened"
    /\ kind' = "ref"
    /\ producers' = <<[base |-> 0, len |-> Len(lchunks)]>>
    /\ lpc' = "bridged"
    /\ UNCHANGED <<buffer, nb_chunks, mainvars, lchunks>>

\* Chunkit::par_iter_mut driven by rayon: ChunkProducerMut::from(self)
ParIterMut ==
    /\ lpc = "opened"
    /\ kind' = "mut"
    /\ producers' = <<[base |-> 0, len |-> Len(lchunks)]>>
    /\ lpc' = "bridged"
    /\ UNCHANGED <<buffer, nb_chunks, mainvars, lchunks>>

\* Producer::split_at on live producer p: the producer is consumed and its
\* two halves take its place.  An index beyond the length panics in the
\* slice's split_at.
SplitAt(p, index) ==
    /\ lpc = "bridged"
    /\ Len(producers) < MaxProducers
    /\ IF index <= producers[p].len
       THEN LET halves == IF kind = "mut" THEN split_at_mut(producers[p], index)
                          ELSE split_at(producers[p], index)
            IN  /\ producers' = SubSeq(producers, 1, p - 1) \o halves
                                   \o SubSeq(producers, p + 1, Len(producers))
                /\ lpc' = "bridged"
       ELSE /\ lpc' = "panic"
            /\ UNCHANGED producers
    /\ UNCHANGED <<buffer, nb_chunks, mainvars, lchunks, kind>>

NextSplit ==
    \/ ChunkitOpen
    \/ ParIter
    \/ ParIterMut
    \/ \E p \in DOMAIN producers : \E index \in 0..(producers[p].len + 1) : SplitAt(p, index)

\* the library of lib.rs under a rayon bridge
SpecSplit == InitSplit /\ [][NextSplit]_vars

\* bridge(self, consumer): the scheduler splits a producer of two chunks or
\* more strictly inside, again and again, down to producers of one chunk
RecSplit(p, index) ==
    /\ producers[p].len >= 2
    /\ 0 < index
    /\ index < producers[p].len
    /\ SplitAt(p, index)

NextRec ==
    \/ ChunkitOpen
    \/ ParIter
    \/ ParIterMut
    \/ \E p \in DOMAIN producers : \E index \in 1..(producers[p].len - 1) : RecSplit(p, index)

\* the library of lib.rs with the scheduler splitting down to single chunks;
\* the scheduler keeps splitting while there is something to split
SpecRecSplit == InitSplit /\ [][NextRec]_vars /\ WF_vars(NextRec)

\* ================================================================ claims
\* ---- what the claims speak of, read off the buffer itself

\* chunk_it has returned its list
Chunked == pc \notin {"chunk_it", "chunk_err"}

\* merge_results has returned
Merged == pc \in {"write", "done", "write_err"} \/ file # "absent"

\* the 0-based offsets at which a line of data starts
LineStarts(data) ==
    { s \in 0..(Len(data) - 1) : s = 0 \/ data[s] = LF }

\* the 0-based offset of the LF ending the line that starts at s, or
\* Len(data) when nothing terminates it
LineStop(data, s) ==
    LET lfs == { e \in s..(Len(data) - 1) : data[e + 1] = LF }
    IN  IF lfs = {} THEN Len(data) ELSE CHOOSE e \in lfs : \A f \in lfs : e <= f

LineBytes(data, s) == SubSeq(data, s + 1, LineStop(data, s))

Terminated(data, s) == LineStop(data, s) < Len(data)

\* every line of data is one of the well-formed records
WellFormed(data) ==
    \A s \in LineStarts(data) : LineBytes(data, s) \in WellFormedLines

RecordAt(data, s) ==
    CHOOSE r \in WellFormedRecords : r.line = LineBytes(data, s)

\* the lines of data that carry key k
LinesOf(data, k) == { s \in LineStarts(data) : RecordAt(data, s).key = k }

RECURSIVE SumVals(_, _)
SumVals(data, ss) ==
    IF ss = {} THEN 0
    ELSE LET s == CHOOSE x \in ss : TRUE
         IN  RecordAt(data, s).val + SumVals(data, ss \ {s})

Names(v) == { v[i].name : i \in DOMAIN v }

\* the bytes after the last ';' of a line (the whole line when it has none)
ValueSegment(line) ==
    LET semis == { i \in 1..Len(line) : line[i] = SEMI }
        last == IF semis = {} THEN 0 ELSE CHOOSE i \in semis : \A j \in semis : j <= i
    IN  SubSeq(line, last + 1, Len(line))

\* C1: the chunks are in increasing order, contiguous, cover [0, eof) exactly,
\* and every chunk but the last ends one byte after a line feed.
\* (The code returns no chunk for a non-empty buffer shorter than the
\* target count.)
C1_ChunksCoverBuffer ==
    Chunked =>
        /\ \A i \in 1..(Len(chunks) - 1) :
              /\ chunks[i].start < chunks[i + 1].start
              /\ chunks[i].end = chunks[i + 1].start
              /\ buffer[chunks[i].end] = LF
        /\ IF chunks = <<>> THEN Len(buffer) = 0
           ELSE chunks[1].start = 0 /\ chunks[Len(chunks)].end = Len(buffer)

\* C2: when the last record of a well-formed buffer has no line feed, the
\* last chunk ends at eof and the merged result holds that record: its key
\* is present and its value is counted in the key's min, max, sum and count.
\* Stated for target counts no larger than the buffer, where the chunker
\* does reach eof.
C2_UnterminatedRecordCounted ==
    ( /\ Merged
      /\ buffer # <<>>
      /\ buffer[Len(buffer)] # LF
      /\ WellFormed(buffer)
      /\ nb_chunks <= Len(buffer) )
    =>
      LET s == CHOOSE x \in LineStarts(buffer) : \A y \in LineStarts(buffer) : y <= x
          r == RecordAt(buffer, s)
      IN  /\ chunks # <<>>
          /\ chunks[Len(chunks)].end = Len(buffer)
          /\ \E i \in DOMAIN merged :
                /\ merged[i].name = r.key
                /\ merged[i].sensor.min <= r.val
                /\ merged[i].sensor.max >= r.val
                /\ merged[i].sensor.cnt = Cardinality(LinesOf(buffer, r.key))
                /\ merged[i].sensor.sum = SumVals(buffer, LinesOf(buffer, r.key))

\* C3: for a well-formed buffer, merging the maps of the chunks gives the
\* same keys with the same min, max, count and (exact) sum as process_chunk
\* on the whole buffer.
C3_PartitionInvariance ==
    (Merged /\ WellFormed(buffer)) =>
        merged \in merge_results(<<process_chunk(buffer).sensors>>)

\* C4: merge_results returns its entries in strictly ascending byte-wise
\* lexicographic key order, each key of any input map exactly once and no
\* other key.
LexLess(a, b) ==
    \E k \in 0..Len(a) :
        /\ k <= Len(b)
        /\ \A i \in 1..k : a[i] = b[i]
        /\ \/ k = Len(a) /\ k < Len(b)
           \/ k < Len(a) /\ k < Len(b) /\ a[k + 1] < b[k + 1]

C4_MergedSortedUnique ==
    Merged =>
        /\ \A i \in 1..(Len(merged) - 1) : LexLess(merged[i].name, merged[i + 1].name)
        /\ Names(merged) = UNION { DOMAIN sensors[c] : c \in DOMAIN sensors }

\* C4's case: several keys merged from several maps, one key in two of them
C4_Witness ==
    /\ pc = "write"
    /\ Len(merged) >= 2
    /\ \E c, d \in DOMAIN sensors : c # d /\ DOMAIN sensors[c] \cap DOMAIN sensors[d] # {}

\* C5: the chunker emits no chunk with start = end and at most the target
\* count of chunks.
C5_NoEmptyChunk ==
    Chunked =>
        /\ \A i \in DOMAIN chunks : chunks[i].start # chunks[i].end
        /\ Len(chunks) <= nb_chunks

\* C5's case: more chunks asked for than the buffer has lines, and fewer
\* chunks than asked for came back
C5_Witness ==
    /\ Chunked
    /\ nb_chunks > Cardinality(LineStarts(buffer))
    /\ chunks # <<>>
    /\ Len(chunks) < nb_chunks

\* C6: merge_results gives the same sorted sequence (min, max, count and sum
\* per key) for every permutation of the per-chunk maps, Sensor::merge being
\* commutative and associative on the sensors of those maps.
CollectedSensors ==
    UNION { { sensors[c][k] : k \in DOMAIN sensors[c] } : c \in DOMAIN sensors }

PermutationsOf(v) ==
    { [i \in DOMAIN v |-> v[f[i]]] :
        f \in { g \in [DOMAIN v -> DOMAIN v] : \A i, j \in DOMAIN v : i # j => g[i] # g[j] } }

C6_FoldOrderIndependent ==
    pc = "write" =>
        /\ \A p \in PermutationsOf(sensors) : merge_results(p) = {merged}
        /\ \A x, y \in CollectedSensors : Sensor_merge(x, y) = Sensor_merge(y, x)
        /\ \A x, y, z \in CollectedSensors :
              Sensor_merge(Sensor_merge(x, y), z) = Sensor_merge(x, Sensor_merge(y, z))

\* C6's case: two maps hold the same key with different minima
C6_Witness ==
    /\ pc = "write"
    /\ \E c, d \in DOMAIN sensors : \E k \in DOMAIN sensors[c] \cap DOMAIN sensors[d] :
          /\ c # d
          /\ sensors[c][k].min # sensors[d][k].min
          /\ sensors[c][k].max # sensors[d][k].max

\* C7: once a worker has failed, the run fails: merge_results and
\* write_results are never executed, nothing is written to the result file,
\* and main, short of its panic, waits in join only on a thread that is
\* running or has ended; and a run never gets past the join with a value
\* that is no number in a terminated line of one of its chunks (the record
\* is not skipped).
BadValueInChunk ==
    \E c \in DOMAIN chunks : \E s \in LineStarts(buffer) :
        /\ chunks[c].start <= s
        /\ LineStop(buffer, s) < chunks[c].end
        /\ ~ParseF32(ValueSegment(LineBytes(buffer, s))).ok

C7_WorkerFailureFailsRun ==
    ((\E i \in DOMAIN wstate : wstate[i] = "panicked") \/ (Chunked /\ BadValueInChunk))
    =>
        /\ pc \in {"open", "spawn", "join", "panic"}
        /\ pc = "join" => wstate[Len(sensors) + 1] \in {"running", "done", "panicked"}
        /\ merged = <<>>
        /\ file = "absent"

\* C7's case: a worker has panicked on a malformed value, another has
\* returned its map, and main has ended in a panic
C7_Witness ==
    /\ pc = "panic"
    /\ BadValueInChunk
    /\ \E i, j \in DOMAIN wstate : wstate[i] = "panicked" /\ wstate[j] = "done"

\* C8: merge_results starts only after every spawned worker has finished and
\* been joined: from then on no worker is running and every map has been
\* collected.
C8_JoinBarrier ==
    pc \in {"merge", "write", "done", "write_err"} =>
        /\ \A i \in DOMAIN wstate : wstate[i] = "done"
        /\ Len(sensors) = Len(chunks)

\* C8's case: the merge is about to start over the maps of three workers
C8_Witness ==
    /\ pc = "merge"
    /\ Len(chunks) >= 3
    /\ Len(sensors) = 3

\* ---- the producers of lib.rs

\* the split the producers' kind calls for
SplitOf(prod, index) ==
    IF kind = "mut" THEN split_at_mut(prod, index) ELSE split_at(prod, index)

RECURSIVE IterateAll(_, _)
\* the chunks yielded by iterating the producers of ps one after the other
IterateAll(storage, ps) ==
    IF ps = <<>> THEN <<>>
    ELSE into_iter(storage, Head(ps)) \o IterateAll(storage, Tail(ps))

\* the 0-based indices of the Vec a producer reaches
Reach(prod) == { prod.base + i : i \in 0..(prod.len - 1) }

\* C9: split_at(at), 0 <= at <= L, on a producer over L chunks returns
\* producers of lengths at and L - at, the first iterating the producer's
\* chunks [0, at), the second [at, L); after any sequence of splits the live
\* producers, iterated in order, yield the original chunks in their order.
C9_SplitKeepsOrder ==
    lpc = "bridged" =>
        /\ IterateAll(lchunks, producers) = lchunks
        /\ \A p \in DOMAIN producers : \A at \in 0..producers[p].len :
              LET all == into_iter(lchunks, producers[p])
                  halves == SplitOf(producers[p], at)
                  left == into_iter(lchunks, halves[1])
                  right == into_iter(lchunks, halves[2])
              IN  /\ Len(left) = at
                  /\ Len(right) = Len(all) - at
                  /\ left = SubSeq(all, 1, at)
                  /\ right = SubSeq(all, at + 1, Len(all))

\* C9's case: a read-only producer over three chunks split twice into
\* three producers of one chunk each
C9_Witness ==
    /\ lpc = "bridged"
    /\ kind = "ref"
    /\ Len(lchunks) = 3
    /\ Len(producers) = 3
    /\ \A p \in DOMAIN producers : producers[p].len = 1

\* C10: after any sequence of split_at from one ChunkProducerMut, no chunk
\* is reachable through two live sub-ranges, and together the live
\* sub-ranges reach exactly the original range.
C10_MutableHalvesDisjoint ==
    (lpc = "bridged" /\ kind = "mut") =>
        /\ \A p, q \in DOMAIN producers : p # q => Reach(producers[p]) \cap Reach(producers[q]) = {}
        /\ UNION { Reach(producers[p]) : p \in DOMAIN producers } = 0..(Len(lchunks) - 1)

\* C10's case: a mutable producer over three chunks split into non-empty
\* halves, one of them split again
C10_Witness ==
    /\ lpc = "bridged"
    /\ kind = "mut"
    /\ Len(lchunks) = 3
    /\ Len(producers) = 3
    /\ \A p \in DOMAIN producers : producers[p].len = 1

\* a split of a live range yields an empty half exactly at the range's own
\* boundary
EmptyHalfOnlyAtBoundary ==
    lpc = "bridged" =>
        \A p \in DOMAIN producers : \A at \in 0..producers[p].len :
            LET halves == SplitOf(producers[p], at)
            IN  /\ halves[1].len = 0 <=> at = 0
                /\ halves[2].len = 0 <=> at = producers[p].len

\* every interior split adds one live range and leaves none empty
SplitDown ==
    (lpc = "bridged" /\ lpc' = "bridged" /\ producers' # producers) =>
        /\ Len(producers') = Len(producers) + 1
        /\ \A p \in DOMAIN producers' : producers'[p].len >= 1

\* the recursion's end: every live range is a single chunk (or the empty range)
AllSingle ==
    lpc = "bridged" /\ \A p \in DOMAIN producers : producers[p].len <= 1

\* C11: splitting a range of L >= 1 chunks again and again until every
\* sub-range has length 1 terminates, and a split yields an empty sub-range
\* only when it is made at the range's own boundary (at = 0 or at = length).
C11_RecursiveSplitTerminates ==
    /\ []EmptyHalfOnlyAtBoundary
    /\ [][SplitDown]_vars
    /\ (lpc = "bridged") ~> AllSingle

\* C11's case: a range of two chunks or more split down to single chunks
C11_Witness ==
    /\ lpc = "bridged"
    /\ Len(lchunks) >= 2
    /\ Len(producers) = Len(lchunks)
    /\ \A p \in DOMAIN producers : producers[p].len = 1

\* every line of data ends with a line feed
AllTerminated(data) == data = <<>> \/ data[Len(data)] = LF

\* the distinct keys of the records of data
KeysOf(data) == { RecordAt(data, s).key : s \in LineStarts(data) }

\* the values of the records of data that carry key k
ValsOf(data, k) == { RecordAt(data, s).val : s \in LinesOf(data, k) }

RECURSIVE SumOver(_, _)
\* the sum of the values of the records r[s], s in ss
SumOver(r, ss) ==
    IF ss = {} THEN 0
    ELSE LET s == CHOOSE x \in ss : TRUE
         IN  r[s].val + SumOver(r, ss \ {s})

\* C12: for a chunk made of well-formed records key;value LF, process_chunk
\* returns a map whose keys are exactly the distinct keys of the chunk, and
\* each key's sensor holds the smallest value, the largest value, the sum
\* and the number of that key's records.
C12_ChunkStatistics ==
    \A i \in DOMAIN wstate :
        wstate[i] = "done" =>
            LET d == Slice(buffer, chunks[i])
                starts == LineStarts(d)
                line == [s \in starts |-> LineBytes(d, s)]
                r == [s \in starts |-> CHOOSE x \in WellFormedRecords : x.line = line[s]]
                keys == { r[s].key : s \in starts }
            IN  (AllTerminated(d) /\ \A s \in starts : line[s] \in WellFormedLines) =>
                    /\ DOMAIN wresult[i] = keys
                    /\ \A k \in keys :
                            LET ss == { s \in starts : r[s].key = k }
                                vals == { r[s].val : s \in ss }
                                sensor == wresult[i][k]
                            IN  /\ sensor.min \in vals
                                /\ \A v \in vals : sensor.min <= v
                                /\ sensor.max \in vals
                                /\ \A v \in vals : v <= sensor.max
                                /\ sensor.sum = SumOver(r, ss)
                                /\ sensor.cnt = Cardinality(ss)

\* C12's case: a worker has processed a chunk of terminated well-formed
\* records in which one key occurs twice with different values next to
\* another key
C12_Witness ==
    \E i \in DOMAIN wstate :
        LET d == Slice(buffer, chunks[i])
        IN  /\ wstate[i] = "done"
            /\ WellFormed(d)
            /\ AllTerminated(d)
            /\ Cardinality(KeysOf(d)) >= 2
            /\ \E k \in KeysOf(d) : Cardinality(ValsOf(d, k)) >= 2

\* the token write_fmt emits for one entry: key=min/avg/max, the average
\* kept as the pair (sum, cnt) it is computed from
EntryOf(e) ==
    [t |-> "entry", name |-> e.name, min |-> e.sensor.min,
     sum |-> e.sensor.sum, cnt |-> e.sensor.cnt, max |-> e.sensor.max]

\* C13: for a sorted sequence of n >= 1 entries, write_results emits one
\* opening brace, the n entries in sequence order each as key=min/avg/max,
\* the separator ", " between consecutive entries only (n-1 separators, none
\* after the last entry), then one closing brace.
C13_ReportLayout ==
    (pc = "done" /\ merged # <<>>) =>
        LET n == Len(merged)
        IN  /\ Len(file) = 2 * n + 1
            /\ file[1] = [t |-> "{"]
            /\ file[2 * n + 1] = [t |-> "}"]
            /\ \A i \in 1..n : file[2 * i] = EntryOf(merged[i])
            /\ \A i \in 1..(n - 1) : file[2 * i + 1] = [t |-> ", "]
            /\ Cardinality({ i \in DOMAIN file : file[i] = [t |-> ", "] }) = n - 1
            /\ Cardinality({ i \in DOMAIN file : file[i] = [t |-> "{"] }) = 1
            /\ Cardinality({ i \in DOMAIN file : file[i] = [t |-> "}"] }) = 1

\* C13's case: a report of two entries or more has been written
C13_Witness ==
    /\ pc = "done"
    /\ Len(merged) >= 2
    /\ Len(file) > 2

\* the sensors of a map
SensorsIn(m) == { m[k] : k \in DOMAIN m }

\* every sensor a worker returned, process_chunks collected or
\* merge_results produced
StoredSensors ==
    UNION { SensorsIn(wresult[i]) : i \in DOMAIN wresult }
    \cup UNION { SensorsIn(sensors[c]) : c \in DOMAIN sensors }
    \cup { merged[i].sensor : i \in DOMAIN merged }

SensorsValid == \A s \in StoredSensors : s.cnt >= 1 /\ s.min <= s.max

\* the offsets just after a line feed of data, and 0: the cursor positions
\* at which the loop of process_chunk has just recorded a line
LineCuts(data) == {0} \cup { p \in 1..Len(data) : data[p] = LF }

\* the map of process_chunk only grows while the loop runs over a chunk:
\* from one recorded line to the next every key stays, with no smaller
\* count, and the map returned is the map after the last line
MapOnlyGrows ==
    pc = "merge" =>
        \A i \in DOMAIN wstate :
            LET d == Slice(buffer, chunks[i])
                at(p) == process_chunk(SubSeq(d, 1, p)).sensors
            IN  \A p \in LineCuts(d) :
                    LET later == { q \in LineCuts(d) : q > p }
                    IN  IF later = {} THEN DOMAIN at(p) \subseteq DOMAIN wresult[i]
                        ELSE LET q == CHOOSE x \in later : \A y \in later : x <= y
                                 before == at(p)
                                 after == at(q)
                             IN  /\ DOMAIN before \subseteq DOMAIN after
                                 /\ \A k \in DOMAIN before : before[k].cnt <= after[k].cnt

\* the merged list holds every key of every collected map
MergedKeepsKeys ==
    pc = "write" =>
        \A c \in DOMAIN sensors : DOMAIN sensors[c] \subseteq Names(merged)

\* no step of the run takes a sensor out of a map
NoSensorRemoved ==
    /\ \A i \in DOMAIN wresult :
            /\ i \in DOMAIN wresult'
            /\ DOMAIN wresult[i] \subseteq DOMAIN wresult'[i]
    /\ \A c \in DOMAIN sensors :
            /\ c \in DOMAIN sensors'
            /\ DOMAIN sensors[c] \subseteq DOMAIN sensors'[c]
    /\ Names(merged) \subseteq Names(merged')

\* C14: every Sensor stored in a per-chunk map or in the merged map, after
\* any sequence of Sensor::new, add_temp and merge the pipeline performs,
\* has count >= 1 and min <= max, and no sensor is removed from a map
\* during a run.
C14_SensorInvariant ==
    /\ []SensorsValid
    /\ []MapOnlyGrows
    /\ []MergedKeepsKeys
    /\ [][NoSensorRemoved]_vars

\* C14's case: a sensor seeded by Sensor::new, updated by add_temp and
\* merged with another chunk's sensor sits in the merged list
C14_Witness ==
    /\ pc = "write"
    /\ Len(sensors) >= 2
    /\ \E i \in DOMAIN merged :
            /\ merged[i].sensor.cnt >= 3
            /\ merged[i].sensor.min < merged[i].sensor.max
            /\ \E c \in DOMAIN sensors :
                    /\ merged[i].name \in DOMAIN sensors[c]
                    /\ sensors[c][merged[i].name].cnt = 2

\* C15: whatever order the worker threads finish in, process_chunks returns
\* the per-chunk maps in chunk index order: the i-th map is the result of
\* the i-th chunk.
C15_ResultsInChunkOrder ==
    /\ Len(sensors) <= Len(chunks)
    /\ \A c \in DOMAIN sensors :
            sensors[c] = process_chunk(Slice(buffer, chunks[c])).sensors
    /\ pc \in {"merge", "write", "done"} => Len(sensors) = Len(chunks)

\* C15's case: the first chunk's map has been collected while a later
\* thread has finished before an earlier one, over chunks whose maps differ
C15_Witness ==
    /\ pc = "join"
    /\ Len(sensors) = 1
    /\ Len(chunks) = 3
    /\ wstate[2] = "running"
    /\ wstate[3] = "done"
    /\ wresult[3] # sensors[1]

\* the byte offsets the thread of chunk i reads: its slice of the mapping
ReadSet(i) == chunks[i].start..(chunks[i].end - 1)

\* no two threads read a common byte offset
ReadsDisjoint ==
    \A i, j \in DOMAIN chunks : i # j => ReadSet(i) \cap ReadSet(j) = {}

\* a step that changes the map of thread i is the step in which thread i
\* ends, and it changes no other thread's map or state
OwnMapOnly ==
    \A i \in DOMAIN wresult :
        wresult'[i] # wresult[i] =>
            /\ wstate[i] = "running"
            /\ wstate'[i] \in {"done", "panicked"}
            /\ \A j \in DOMAIN wresult \ {i} :
                    wresult'[j] = wresult[j] /\ wstate'[j] = wstate[j]

\* C16: during aggregation, in every interleaving, the byte offsets read by
\* two distinct workers are disjoint and each worker writes only its own
\* summary map; no summary map is written by two workers.
C16_WorkersIsolated ==
    /\ []ReadsDisjoint
    /\ [][OwnMapOnly]_vars

\* C16's case: two threads over non-empty chunks have both returned a
\* non-empty map while a third is still running
C16_Witness ==
    \E i, j, k \in DOMAIN wstate :
        /\ i # j
        /\ wstate[i] = "done"
        /\ wstate[j] = "done"
        /\ wstate[k] = "running"
        /\ wresult[i] # EmptyMap
        /\ wresult[j] # EmptyMap
        /\ ReadSet(i) # {}
        /\ ReadSet(j) # {}

\* C17: write_results is only reached with at least one entry, so that
\* last_index = sensors.len() - 1 does not underflow, and the run ends with
\* a well-formed report rather than the panic of the subtraction.
\* (The code reaches write_results with no entry for an empty file, and for
\* every buffer the chunker or the aggregator returns nothing for.)
C17_WriteHasEntry ==
    /\ pc = "write" => Len(merged) >= 1
    /\ (pc = "panic" /\ file # "absent") => merged # <<>>

\* the key bytes of a line: the bytes from its start to its first ';', and
\* no byte when the line has no ';' (what a fresh scratch buffer holds)
KeySegment(line) ==
    LET semis == { i \in 1..Len(line) : line[i] = SEMI }
    IN  IF semis = {} THEN <<>>
        ELSE SubSeq(line, 1, (CHOOSE i \in semis : \A j \in semis : i <= j) - 1)

\* the LF-terminated lines of data whose own key bytes are k
OwnLines(data, k) ==
    { s \in LineStarts(data) :
        Terminated(data, s) /\ KeySegment(LineBytes(data, s)) = k }

\* C18: for any chunk bytes, process_chunk records the value of each
\* LF-terminated line under the key bytes of that same line; the reused
\* scratch buffer never makes a value count under a key captured from an
\* earlier line.
\* (The code records a line that has no ';' under the previous line's key.)
C18_ValueUnderOwnKey ==
    \A i \in DOMAIN wstate :
        wstate[i] = "done" =>
            LET d == Slice(buffer, chunks[i])
            IN  /\ DOMAIN wresult[i] =
                       { KeySegment(LineBytes(d, s)) :
                           s \in { x \in LineStarts(d) : Terminated(d, x) } }
                /\ \A k \in DOMAIN wresult[i] :
                       wresult[i][k].cnt = Cardinality(OwnLines(d, k))

\* every chunk of cs but the last is longer than size, and when size >= 1
\* the last chunk ends at eof: the loop met eof within its iterations
LongChunks(cs, eof, size) ==
    /\ \A i \in 1..(Len(cs) - 1) : cs[i].end - cs[i].start >= size + 1
    /\ size >= 1 => (cs # <<>> /\ cs[Len(cs)].end = eof)

\* C19: with size = floor(len(buffer) / targetCount), every chunk the
\* chunker emits other than the last has length at least size + 1, and so
\* the loop of at most targetCount iterations reaches eof before it runs
\* out of iterations whenever size >= 1.
C19_ChunksLongerThanSize ==
    LET size == Len(buffer) \div nb_chunks
    IN  /\ Chunked => LongChunks(chunks, Len(buffer), size)
        /\ pc = "open" => LongChunks(chunk_file(buffer, nb_chunks), Len(buffer), size)

\* C19's case: size >= 1, several chunks, one of them not the last and
\* longer than size + 1, and fewer chunks than iterations
C19_Witness ==
    /\ Chunked
    /\ Len(buffer) \div nb_chunks >= 1
    /\ Len(chunks) >= 2
    /\ Len(chunks) < nb_chunks
    /\ chunks[1].end - chunks[1].start > Len(buffer) \div nb_chunks + 1
    /\ chunks[Len(chunks)].end = Len(buffer)
====
